---- MODULE Spec2Model ----
(***************************************************************************)
(* A model of backend/main.py: the JSON test-report pipeline               *)
(*   list files -> load -> merge/validate -> agent -> sanitize -> respond. *)
(*                                                                         *)
(* Texts (file contents, agent transcripts) are sequences of tokens.  A    *)
(* token is one character ("{", "}", ",", "\n", ...) or a run of           *)
(* characters that no string operation of the program looks inside         *)
(* (a JSON member such as  "id": 1 , a word of a transcript).              *)
(***************************************************************************)
EXTENDS Integers, Sequences, FiniteSets, TLC

VARIABLES
    \* ---- file loader (load_json_file_local / load_json_file_s3)
    file,           \* the file handed to the loader: [readable, content]
    shape,          \* how the content was written: [kind, objs, sep]
    loaded,         \* what the loader returned (a JSON value, or JNone)
    lpc,            \* "idle", "ready", "local", "s3"
    \* ---- merger (merge_json_data)
    documents,      \* the argument json_files: a sequence of JSON values
    merged,         \* what merge_json_data returned
    mpc,            \* "idle", "build", "merged"
    \* ---- response sanitizer
    agent_output,   \* the transcript the agent produced
    clean_report,   \* the sanitized transcript
    clean_again,    \* the sanitized report
    spc,            \* "idle", "ready", "once", "twice"
    \* ---- one request to GET /list_files or POST /analyze
    store,          \* the entries of the directory tree or bucket
    request,        \* the request being handled
    listing,        \* how the listing went: [error, seen]
    candidates,     \* analyze_candidates' result (found, json_files, raised)
    loaded_files,   \* the local loaded_files of analyze_data
    merged_data,    \* the local merged_data of analyze_data
    result,         \* the agent's output for this request
    plotting_ok,    \* whether the plotting library raised no exception
    response,       \* what the client receives
    calls,          \* calls made so far: [store, load, merge, agent]
    pc,             \* "off", "idle", "listed", "loaded", "merged", "invoked", "done"
    \* ---- the thread pool that loads the files of one request
    pool_source,    \* request.source_type of the request
    handles,        \* the files of json_files, in order
    work,           \* per submitted call: "pending", "running" or "finished"
    slots,          \* per future: None, or Some(result)
    finish_order,   \* the calls in the order they finished
    pool_loaded,    \* the list built from executor.map's iterator
    pool_merged,    \* merge_json_data of the loaded documents
    ppc             \* "idle", "start", "mapping", "collected", "merged", "failed"

loader_vars == <<file, shape, loaded, lpc>>
merge_vars == <<documents, merged, mpc>>
sanitize_vars == <<agent_output, clean_report, clean_again, spc>>
request_vars == <<store, request, listing, candidates, loaded_files, merged_data,
                  result, plotting_ok, response, calls, pc>>
pool_vars == <<pool_source, handles, work, slots, finish_order, pool_loaded,
               pool_merged, ppc>>
vars == <<loader_vars, merge_vars, sanitize_vars, request_vars, pool_vars>>

(***************************************************************************)
(* Bounds                                                                  *)
(***************************************************************************)
MaxObjs == 3        \* objects written one after another into one file
MaxCandidates == 4  \* documents plus array elements handed to one merge
MaxTranscript == 4  \* tokens of a transcript
MaxStore == 2       \* entries of the directory tree or bucket
MaxHandles == 3     \* files handed to the thread pool

(***************************************************************************)
(* Python string operations, on token sequences                            *)
(***************************************************************************)
Whitespace == {"\n", " "}

Min(S) == CHOOSE x \in S : \A y \in S : x <= y

startswith(s, tok) == Len(s) > 0 /\ s[1] = tok
endswith(s, tok) == Len(s) > 0 /\ s[Len(s)] = tok

\* str.lstrip(chars) / str.rstrip(chars): every leading / trailing character
\* of the set is removed, not only one.
RECURSIVE lstrip(_, _)
lstrip(s, chars) ==
    IF Len(s) > 0 /\ s[1] \in chars THEN lstrip(Tail(s), chars) ELSE s

RECURSIVE rstrip(_, _)
rstrip(s, chars) ==
    IF Len(s) > 0 /\ s[Len(s)] \in chars
    THEN rstrip(SubSeq(s, 1, Len(s) - 1), chars) ELSE s

strip(s) == rstrip(lstrip(s, Whitespace), Whitespace)

\* str.split(sep): non-overlapping occurrences, leftmost first.
RECURSIVE split(_, _)
split(s, sep) ==
    LET n == Len(sep)
        hits == {i \in 1..(Len(s) - n + 1) : SubSeq(s, i, i + n - 1) = sep}
    IN  IF hits = {} THEN <<s>>
        ELSE LET i == Min(hits)
             IN  <<SubSeq(s, 1, i - 1)>> \o split(SubSeq(s, i + n, Len(s)), sep)

\* sep.join(parts)
RECURSIVE join(_, _)
join(sep, parts) ==
    IF Len(parts) = 0 THEN <<>>
    ELSE IF Len(parts) = 1 THEN parts[1]
    ELSE parts[1] \o sep \o join(sep, Tail(parts))

(***************************************************************************)
(* JSON values and json.loads                                              *)
(*   dict : [t |-> "dict", m |-> sequence of [k, v]]  (insertion order)    *)
(*   list : [t |-> "list", m |-> sequence of values]                       *)
(*   scalars: "num", "str" (not a timestamp), "ts" (a timestamp string)    *)
(*   JNone: Python's None                                                  *)
(***************************************************************************)
JDict(members) == [t |-> "dict", m |-> members]
JList(items) == [t |-> "list", m |-> items]
JScalar(kind) == [t |-> kind, m |-> <<>>]
JNone == [t |-> "None", m |-> <<>>]

\* A member token stands for the text  "key": scalar
MemberTokens == {"id", "state", "test_case_id", "created", "created_bad", "last_changed"}
MemberKey(tok) == IF tok = "created_bad" THEN "created" ELSE tok
MemberValue(tok) ==
    IF tok \in {"id", "test_case_id"} THEN JScalar("num")
    ELSE IF tok \in {"created", "last_changed"} THEN JScalar("ts")
    ELSE JScalar("str")
\* "meta:" stands for the text  "meta":  and is followed by any value;
\* "1" stands for a number.
KeyToken == "meta:"
NumToken == "1"

\* dict[k] = v : a repeated key keeps its place and takes the last value.
dict_put(members, k, v) ==
    IF \E i \in 1..Len(members) : members[i].k = k
    THEN [i \in 1..Len(members) |->
             IF members[i].k = k THEN [k |-> k, v |-> v] ELSE members[i]]
    ELSE Append(members, [k |-> k, v |-> v])

skipws(s, i) ==
    LET rest == {j \in i..Len(s) : s[j] \notin Whitespace}
    IN  IF rest = {} THEN Len(s) + 1 ELSE Min(rest)

ParseFail == [ok |-> FALSE, v |-> JNone, i |-> 0]
ParseOk(v, i) == [ok |-> TRUE, v |-> v, i |-> i]

RECURSIVE parse_value(_, _)
RECURSIVE parse_member(_, _, _)
RECURSIVE parse_member_end(_, _, _)
RECURSIVE parse_item(_, _, _)

\* the JSON value that starts at or after position i0
parse_value(s, i0) ==
    LET i == skipws(s, i0) IN
    IF i > Len(s) THEN ParseFail
    ELSE IF s[i] = "{" THEN
        LET j == skipws(s, i + 1) IN
        IF j <= Len(s) /\ s[j] = "}" THEN ParseOk(JDict(<<>>), j + 1)
        ELSE parse_member(s, j, <<>>)
    ELSE IF s[i] = "[" THEN
        LET j == skipws(s, i + 1) IN
        IF j <= Len(s) /\ s[j] = "]" THEN ParseOk(JList(<<>>), j + 1)
        ELSE parse_item(s, j, <<>>)
    ELSE IF s[i] = NumToken THEN ParseOk(JScalar("num"), i + 1)
    ELSE ParseFail

\* one member of an object is expected at position i
parse_member(s, i, acc) ==
    IF i > Len(s) THEN ParseFail
    ELSE IF s[i] \in MemberTokens
    THEN parse_member_end(s, i + 1, dict_put(acc, MemberKey(s[i]), MemberValue(s[i])))
    ELSE IF s[i] = KeyToken THEN
        LET r == parse_value(s, i + 1) IN
        IF r.ok THEN parse_member_end(s, r.i, dict_put(acc, "meta", r.v)) ELSE ParseFail
    ELSE ParseFail

\* after a member: "," and another member, or "}"
parse_member_end(s, i0, acc) ==
    LET i == skipws(s, i0) IN
    IF i > Len(s) THEN ParseFail
    ELSE IF s[i] = "," THEN parse_member(s, skipws(s, i + 1), acc)
    ELSE IF s[i] = "}" THEN ParseOk(JDict(acc), i + 1)
    ELSE ParseFail

\* one item of an array is expected at position i; then "," or "]"
parse_item(s, i, acc) ==
    LET r == parse_value(s, i) IN
    IF ~r.ok THEN ParseFail
    ELSE LET j == skipws(s, r.i) IN
         IF j > Len(s) THEN ParseFail
         ELSE IF s[j] = "," THEN parse_item(s, j + 1, Append(acc, r.v))
         ELSE IF s[j] = "]" THEN ParseOk(JList(Append(acc, r.v)), j + 1)
         ELSE ParseFail

\* json.loads(text): one value, then only whitespace; ok = FALSE models
\* json.JSONDecodeError.
json_loads(s) ==
    LET r == parse_value(s, 1) IN
    IF r.ok /\ skipws(s, r.i) > Len(s) THEN [ok |-> TRUE, v |-> r.v]
    ELSE [ok |-> FALSE, v |-> JNone]

(***************************************************************************)
(* Merger & Validator                                                      *)
(***************************************************************************)
RequiredKeys == {"id", "state", "test_case_id"}

has_key(report, key) == \E i \in 1..Len(report.m) : report.m[i].k = key

\* lines 102-112: a dict is one report, a list is extended into the reports,
\* anything else is skipped with a warning
RECURSIVE all_reports(_)
all_reports(json_files) ==
    IF Len(json_files) = 0 THEN <<>>
    ELSE LET f == json_files[1]
             head == IF f.t = "dict" THEN <<f>>
                     ELSE IF f.t = "list" THEN f.m
                     ELSE <<>>
         IN  head \o all_reports(Tail(json_files))

\* a validation that forgets test_case_id
is_valid_report_two_keys(report) ==
    report.t = "dict" /\ has_key(report, "id") /\ has_key(report, "state")

\* line 119: isinstance(report, dict) and all(key in report for key in [...])
is_valid_report(report) ==
    report.t = "dict" /\ \A key \in RequiredKeys : has_key(report, key)

\* The returned dict.  metadata is <<>> when the key is absent from it (the
\* early return of line 99) and <<[total_reports |-> n]>> otherwise.
merge_json_data(json_files) ==
    IF Len(json_files) = 0 THEN [merged_data |-> <<>>, metadata |-> <<>>]
    ELSE LET valid_reports == SelectSeq(all_reports(json_files), is_valid_report)
         IN  [merged_data |-> valid_reports,
              metadata |-> <<[total_reports |-> Len(valid_reports)]>>]

(***************************************************************************)
(* File Loader                                                             *)
(***************************************************************************)
\* the separator load_json_file_local splits on:  "},\n{"
SplitSeparator == <<"}", ",", "\n", "{">>

\* objects = [obj + '}' if not obj.endswith('}') else obj for obj in ...]
reattach(parts) ==
    [i \in 1..Len(parts) |->
        IF endswith(parts[i], "}") THEN parts[i] ELSE Append(parts[i], "}")]

\* lines 59-67: the text handed to json.loads for "multiple objects" content
array_content(content) ==
    LET objects0 == reattach(split(rstrip(strip(content), {","}), SplitSeparator))
        objects1 == [objects0 EXCEPT ![1] = lstrip(objects0[1], {"{"})]
        n == Len(objects1)
        objects2 == [objects1 EXCEPT ![n] = rstrip(objects1[n], {"}"})]
    IN  <<"[", "{">> \o join(<<"}", ",", "{">>, objects2) \o <<"}", "]">>

\* load_json_file_local: any exception (open, read, decode) yields None
load_json_file_local(f) ==
    IF ~f.readable THEN JNone
    ELSE LET s == strip(f.content)
             text == IF startswith(s, "{") /\ endswith(s, "}")
                     THEN array_content(f.content) ELSE f.content
             r == json_loads(text)
         IN  IF r.ok THEN r.v ELSE JNone

\* load_json_file_s3: strict json.loads of the body; any exception yields None
load_json_file_s3(f) ==
    IF ~f.readable THEN JNone
    ELSE LET r == json_loads(f.content) IN IF r.ok THEN r.v ELSE JNone


(***************************************************************************)
(* Response Sanitizer (analyze_data, lines 503-596)                        *)
(* A transcript is a token sequence; "\n" and " " are its whitespace.      *)
(***************************************************************************)
FinalAnswerMarker == "Final Answer:"
DialoguePrefixes ==
    {"Thought:", "Action:", "Observation:", "Tool:", "System:", "Assistant:", "Human:"}
PlanningPrefixes ==
    {"I will", "Let me", "First", "Then", "Next", "Finally", "To get", "To find",
     "To calculate", "Here's", "Here are", "The most common", "This shows",
     "This indicates", "Based on"}
BulletTokens == {"-", "\\u2022", "*"}
\* str(i) + "." for i in range(1, 10)
NumberedTokens == {"1.", "2.", "3.", "4.", "5.", "6.", "7.", "8.", "9."}
ResultWords ==
    {"total", "rate", "average", "distribution", "frequency", "count", "number",
     "success", "failed", "passed", "overall"}
NoResultsLiteral == "No analysis results available."

\* what a token's characters are, as far as the sanitizer looks
TokenEndsWithColon(tok) == tok \in {":", FinalAnswerMarker} \cup DialoguePrefixes
TokenHasColon(tok) == TokenEndsWithColon(tok)
TokenLower(tok) ==
    IF tok = "Total" THEN "total" ELSE IF tok = "FAILED" THEN "failed" ELSE tok

starts_with_any(line, prefixes) == Len(line) > 0 /\ line[1] \in prefixes
contains(line, tokens) == \E i \in 1..Len(line) : line[i] \in tokens

\* a cut that keeps everything after the first marker, later markers included
after_marker_rest(output) ==
    IF contains(output, {FinalAnswerMarker})
    THEN strip(join(<<FinalAnswerMarker>>, Tail(split(output, <<FinalAnswerMarker>>))))
    ELSE output

\* lines 509-510: output.split("Final Answer:")[1].strip()
after_marker(output) ==
    IF contains(output, {FinalAnswerMarker})
    THEN strip(split(output, <<FinalAnswerMarker>>)[2])
    ELSE output

\* lines 542: a section header
is_section_header(line) ==
    /\ Len(line) > 0
    /\ TokenEndsWithColon(line[Len(line)])
    /\ ~startswith(line, "-")

\* lines 549-559: a line that looks like a result
looks_like_result(line) ==
    \/ starts_with_any(line, BulletTokens)
    \/ starts_with_any(line, NumberedTokens)
    \/ \E i \in 1..Len(line) : TokenHasColon(line[i])
    \/ contains(line, {"%"})
    \/ \E i \in 1..Len(line) : TokenLower(line[i]) \in ResultWords

\* lines 517-563: what one line of the output adds to final_output
line_output(raw) ==
    LET line == strip(raw) IN
    IF Len(line) = 0 THEN <<>>
    ELSE IF starts_with_any(line, DialoguePrefixes) THEN <<>>
    ELSE IF contains(line, {"{", "}"}) THEN <<>>
    ELSE IF starts_with_any(line, PlanningPrefixes) THEN <<>>
    ELSE IF is_section_header(line) THEN << <<>>, line >>
    ELSE IF looks_like_result(line) THEN <<line>>
    ELSE <<>>

RECURSIVE collect_lines(_)
collect_lines(lines) ==
    IF Len(lines) = 0 THEN <<>>
    ELSE line_output(lines[1]) \o collect_lines(Tail(lines))

\* a clean-up that skips no line
keep_duplicates(lines, prev_line) == lines

\* lines 570-583: a line equal to the previous kept line is skipped
RECURSIVE skip_duplicates(_, _)
skip_duplicates(lines, prev_line) ==
    IF Len(lines) = 0 THEN <<>>
    ELSE IF lines[1] = prev_line THEN skip_duplicates(Tail(lines), prev_line)
    ELSE <<lines[1]>> \o skip_duplicates(Tail(lines), lines[1])

\* lines 586-589: leading and trailing blank lines are popped
RECURSIVE pop_blank_lines(_)
pop_blank_lines(lines) ==
    IF Len(lines) > 0 /\ lines[1] = <<>> THEN pop_blank_lines(Tail(lines))
    ELSE IF Len(lines) > 0 /\ lines[Len(lines)] = <<>>
    THEN pop_blank_lines(SubSeq(lines, 1, Len(lines) - 1))
    ELSE lines

\* the lines of the report, before they are joined
cleaned_output(transcript) ==
    pop_blank_lines(
        skip_duplicates(collect_lines(split(after_marker(transcript), <<"\n">>)), <<>>))

\* line 596: final_message
sanitize(transcript) ==
    LET cleaned == cleaned_output(transcript) IN
    IF Len(cleaned) > 0 THEN join(<<"\n">>, cleaned) ELSE <<NoResultsLiteral>>

(***************************************************************************)
(* Source Resolver                                                         *)
(* The store (directory tree or bucket) is the sequence of its entries in  *)
(* listing order; a key is an entry's index.  A listing io = [error, seen] *)
(* got through the first `seen` entries and, when error, then failed.      *)
(***************************************************************************)
\* the name endings that Path.rglob("*.json") matches
local_match == {".json"}
\* the key endings for which obj['Key'].lower().endswith('.json')
s3_match == {".json", ".JSON"}

\* the keys collected from the entries the listing got through
keys_seen(store_, io, endings) ==
    SelectSeq([i \in 1..io.seen |-> i], LAMBDA i : store_[i].ext \in endings)

\* get_local_json_files: an exception while iterating is printed, and what
\* was collected so far is returned
get_local_json_files(store_, io) ==
    [raised |-> FALSE, files |-> keys_seen(store_, io, local_match)]

\* get_s3_json_files: an exception of the paginator is printed, and what
\* was collected so far is returned
get_s3_json_files(store_, io) ==
    [raised |-> FALSE, files |-> keys_seen(store_, io, s3_match)]

(***************************************************************************)
(* HTTP boundary                                                           *)
(***************************************************************************)
\* Optional[...] values: <<>> is None, <<x>> is x
None == <<>>
Some(x) == <<x>>
\* `not bucket_name`
falsy_str(opt) == opt = None \/ opt = Some("")

\* seq[:stop]
py_slice(seq, stop) ==
    IF stop = None THEN seq
    ELSE LET n == stop[1]
             k == IF n >= 0 THEN (IF n < Len(seq) THEN n ELSE Len(seq))
                  ELSE (IF Len(seq) + n > 0 THEN Len(seq) + n ELSE 0)
         IN  SubSeq(seq, 1, k)

NoVisualization == [present |-> FALSE, charts |-> <<>>, dark_mode |-> FALSE]

HTTPException(status_code, detail) ==
    [status_code |-> status_code, detail |-> detail]

\* a response that carries only a status and a detail
error_response(status, detail) ==
    [status |-> status, detail |-> detail, message |-> <<>>,
     visualization |-> NoVisualization, success |-> FALSE,
     files_processed |-> 0, total_files_found |-> 0,
     visualization_error |-> None, count |-> 0]

\* lines 218-219 and 615-616:  except Exception as e:
\*     raise HTTPException(status_code=500, detail=str(e))
\* An HTTPException raised inside the try block is an Exception too.
request_boundary(exc) == error_response(500, exc.detail)

\* list_json_files, lines 204-219
list_json_files(req, store_, io) ==
    IF req.source_type = "local"
    THEN LET json_files == get_local_json_files(store_, io).files
         IN  [error_response(200, "") EXCEPT !.count = Len(json_files), !.success = TRUE]
    ELSE IF req.source_type = "s3"
    THEN IF falsy_str(req.bucket_name)
         THEN request_boundary(
                  HTTPException(400, "bucket_name is required for S3 source type"))
         ELSE LET json_files == get_s3_json_files(store_, io).files
              IN  [error_response(200, "") EXCEPT !.count = Len(json_files), !.success = TRUE]
    ELSE request_boundary(
             HTTPException(400, "Invalid source_type. Must be 'local' or 's3'"))

\* analyze_data, lines 226-231 and 242-252: the candidate list, or the
\* exception raised instead
analyze_candidates(req, store_, io) ==
    IF req.source_type = "local"
    THEN LET found == get_local_json_files(store_, io)
             json_files == py_slice(found.files, req.max_files)
         IN  IF Len(json_files) = 0
             THEN [raised |-> TRUE,
                   exc |-> HTTPException(404, "No JSON files found in the local directory"),
                   listed |-> TRUE, found |-> found.files, json_files |-> json_files]
             ELSE [raised |-> FALSE, exc |-> HTTPException(0, ""),
                   listed |-> TRUE, found |-> found.files, json_files |-> json_files]
    ELSE IF falsy_str(req.bucket_name)
    THEN [raised |-> TRUE,
          exc |-> HTTPException(400, "bucket_name is required for S3 source type"),
          listed |-> FALSE, found |-> <<>>, json_files |-> <<>>]
    ELSE LET found == get_s3_json_files(store_, io)
             json_files == py_slice(found.files, req.max_files)
         IN  IF Len(json_files) = 0
             THEN [raised |-> TRUE,
                   exc |-> HTTPException(404,
                              "No JSON files found in the specified bucket and prefix"),
                   listed |-> TRUE, found |-> found.files, json_files |-> json_files]
             ELSE [raised |-> FALSE, exc |-> HTTPException(0, ""),
                   listed |-> TRUE, found |-> found.files, json_files |-> json_files]

\* lines 236-240 and 255-259: executor.map keeps the order of json_files
load_all(req, store_, json_files) ==
    [i \in 1..Len(json_files) |->
        IF req.source_type = "local"
        THEN load_json_file_local(store_[json_files[i]].file)
        ELSE load_json_file_s3(store_[json_files[i]].file)]

\* line 265: [f for f in loaded_files if f is not None]
not_none(f) == f.t # "None"

(***************************************************************************)
(* Visualization (analyze_data, lines 377-501)                             *)
(***************************************************************************)
\* the columns of pd.DataFrame(records)
columns(records) ==
    UNION {{records[i].m[j].k : j \in 1..Len(records[i].m)} : i \in 1..Len(records)}

column_has(records, key, kind) ==
    \E i \in 1..Len(records) : \E j \in 1..Len(records[i].m) :
        records[i].m[j].k = key /\ records[i].m[j].v.t = kind

\* pd.to_datetime raises on a string that is no timestamp
duration_raises(records) ==
    /\ {"created", "last_changed"} \subseteq columns(records)
    /\ column_has(records, "created", "str") \/ column_has(records, "last_changed", "str")

figs(records) ==
    (IF "state" \in columns(records) THEN <<"Distribution of Test States">> ELSE <<>>)
    \o (IF {"created", "last_changed"} \subseteq columns(records)
        THEN <<"Distribution of Test Durations">> ELSE <<>>)
    \o (IF "test_case_id" \in columns(records)
        THEN <<"Top 10 Most Frequent Test Cases">> ELSE <<>>)

\* lines 377-501: plot_json, or the exception text.  renderer_ok: whether the
\* plotting library builds and encodes the figures without raising.
build_visualization(records, dark_mode, renderer_ok) ==
    IF duration_raises(records)
    THEN [raised |-> TRUE, error |-> "Unknown datetime string format",
          plot_json |-> NoVisualization]
    ELSE IF Len(figs(records)) > 0 /\ ~renderer_ok
    THEN [raised |-> TRUE, error |-> "plotly error", plot_json |-> NoVisualization]
    ELSE IF Len(figs(records)) > 0
    THEN [raised |-> FALSE, error |-> "",
          plot_json |-> [present |-> TRUE, charts |-> figs(records), dark_mode |-> dark_mode]]
    ELSE [raised |-> FALSE, error |-> "", plot_json |-> NoVisualization]

\* lines 376-616: the response of a request whose agent returned `output`.
\* final_message is assigned by the last statement of the try block, so it
\* is unbound in the handler of lines 605-613 when the chart code raised:
\* the handler itself raises, and the request boundary answers.
analyze_response(req, merged_, loaded_count, found_count, output, renderer_ok) ==
    LET viz == build_visualization(merged_.merged_data, req.dark_mode, renderer_ok)
        \* None: the name is unbound
        final_message == IF viz.raised THEN None ELSE Some(sanitize(output))
    IN  IF ~viz.raised
        THEN [status |-> 200, detail |-> "", message |-> final_message[1],
              visualization |-> viz.plot_json, success |-> TRUE,
              files_processed |-> loaded_count, total_files_found |-> found_count,
              visualization_error |-> None, count |-> 0]
        ELSE IF final_message # None
        THEN [status |-> 200, detail |-> "", message |-> final_message[1],
              visualization |-> NoVisualization, success |-> TRUE,
              files_processed |-> loaded_count, total_files_found |-> found_count,
              visualization_error |-> Some(viz.error), count |-> 0]
        ELSE request_boundary(HTTPException(0,
                 "cannot access local variable 'final_message' where it is not associated with a value"))

(***************************************************************************)
(* Inputs                                                                  *)
(***************************************************************************)
SeqsUpTo(S, n) == UNION {[1..k -> S] : k \in 1..n}

\* ---- file contents
ObjTexts ==
    { <<"{", "id", "}">>,
      <<"{", "id", ",", "state", ",", "test_case_id", "}">>,
      <<"{", "state", ",", "meta:", "{", "id", "}", "}">>,
      <<"{", "meta:", "{", "id", "}", ",", "state", "}">> }

\* what is written between two consecutive objects
Boundaries == { <<"\n">>, <<",", "\n">>, <<",">>, <<>> }

\* the objects of objs, each followed by sep except the last
RECURSIVE concat(_, _)
concat(objs, sep) ==
    IF Len(objs) = 1 THEN objs[1]
    ELSE objs[1] \o sep \o concat(Tail(objs), sep)

Shapes ==
    [kind : {"concat"}, objs : SeqsUpTo(ObjTexts, MaxObjs), sep : Boundaries]
    \cup [kind : {"array", "padded", "trailing_comma"},
          objs : SeqsUpTo(ObjTexts, MaxObjs), sep : {<<",">>, <<"\n">>}]

ContentOf(sh) ==
    IF sh.kind = "concat" THEN concat(sh.objs, sh.sep)
    ELSE IF sh.kind = "array" THEN <<"[">> \o concat(sh.objs, sh.sep) \o <<"]">>
    ELSE IF sh.kind = "padded" THEN <<"\n", " ">> \o concat(sh.objs, sh.sep) \o <<"\n">>
    ELSE concat(sh.objs, sh.sep) \o <<",">>

\* ---- documents the merger is given
RecordA == JDict(<<[k |-> "id", v |-> JScalar("num")],
                   [k |-> "state", v |-> JScalar("str")],
                   [k |-> "test_case_id", v |-> JScalar("num")]>>)
RecordB == JDict(RecordA.m \o <<[k |-> "created", v |-> JScalar("ts")]>>)
NoId == JDict(<<[k |-> "state", v |-> JScalar("str")],
                [k |-> "test_case_id", v |-> JScalar("num")]>>)
NoState == JDict(<<[k |-> "id", v |-> JScalar("num")],
                   [k |-> "test_case_id", v |-> JScalar("num")]>>)
NoTestCaseId == JDict(<<[k |-> "id", v |-> JScalar("num")],
                        [k |-> "state", v |-> JScalar("str")]>>)
Elements == {RecordA, RecordB, NoId, NoState, NoTestCaseId, JScalar("num")}

\* what one merge has to look at: every document, and every element of a list
RECURSIVE input_size(_)
input_size(json_files) ==
    IF Len(json_files) = 0 THEN 0
    ELSE 1 + (IF json_files[1].t = "list" THEN Len(json_files[1].m) ELSE 0)
           + input_size(Tail(json_files))

\* ---- transcripts
TranscriptTokens ==
    {"\n", " ", FinalAnswerMarker, "Thought:", "{", "I will", "-", "1.", "0.",
     ":", "%", "total", "w"}

Transcripts == {<<>>} \cup SeqsUpTo(TranscriptTokens, MaxTranscript)

\* ---- stores and requests
GoodObject == <<"{", "id", ",", "state", ",", "test_case_id", "}">>
BadDates == <<"{", "id", ",", "state", ",", "test_case_id", ",",
              "created_bad", ",", "last_changed", "}">>
StoreEntries ==
    { [ext |-> ".json", file |-> [readable |-> TRUE, content |-> GoodObject]],
      [ext |-> ".JSON", file |-> [readable |-> TRUE, content |-> GoodObject]],
      [ext |-> ".txt", file |-> [readable |-> TRUE, content |-> GoodObject]],
      [ext |-> ".json", file |-> [readable |-> FALSE, content |-> GoodObject]],
      [ext |-> ".json", file |-> [readable |-> TRUE, content |-> BadDates]],
      [ext |-> ".json", file |-> [readable |-> TRUE,
                                  content |-> <<"{", "id", "}">>]],
      [ext |-> ".json", file |-> [readable |-> TRUE,
                                  content |-> GoodObject \o <<"\n">> \o GoodObject]],
      [ext |-> ".json", file |-> [readable |-> TRUE,
                                  content |-> <<"[">> \o GoodObject \o <<",", "{", "id", "}", "]">>]] }

Stores == {<<>>} \cup SeqsUpTo(StoreEntries, MaxStore)

BucketNames == {None, Some(""), Some("reports")}

AnalyzeRequests ==
    [endpoint : {"analyze"}, source_type : {"local"}, bucket_name : {None},
     max_files : {None} \cup {Some(n) : n \in (-1)..MaxStore}, dark_mode : BOOLEAN]
    \cup [endpoint : {"analyze"}, source_type : {"s3"}, bucket_name : BucketNames,
          max_files : {None} \cup {Some(n) : n \in (-1)..MaxStore}, dark_mode : BOOLEAN]

ListRequests ==
    [endpoint : {"list_files"}, source_type : {"local", "ftp"}, bucket_name : {None},
     max_files : {None}, dark_mode : {FALSE}]
    \cup [endpoint : {"list_files"}, source_type : {"s3"}, bucket_name : BucketNames,
          max_files : {None}, dark_mode : {FALSE}]

\* a listing runs to the end, or fails after any number of entries
ListingOutcomes(store_) ==
    {[error |-> FALSE, seen |-> Len(store_)]}
    \cup [error : {TRUE}, seen : 0..Len(store_)]

AgentTranscripts ==
    { <<"Thought:", "w", "\n", FinalAnswerMarker, "\n", "w", ":", "\n",
        "total", ":", "1.", "\n", "-", "w", ":", "%">>,
      <<"w", "\n", "I will", "w">>,
      <<FinalAnswerMarker, " ", "w">> }

(***************************************************************************)
(* Each component at rest                                                  *)
(***************************************************************************)
LoaderIdle ==
    /\ shape = [kind |-> "none", objs |-> <<>>, sep |-> <<>>]
    /\ file = [readable |-> FALSE, content |-> <<>>]
    /\ loaded = JNone
    /\ lpc = "idle"

MergeIdle ==
    /\ documents = <<>>
    /\ merged = [merged_data |-> <<>>, metadata |-> <<>>]
    /\ mpc = "idle"

SanitizeIdle ==
    /\ agent_output = <<>>
    /\ clean_report = <<>>
    /\ clean_again = <<>>
    /\ spc = "idle"

NoRequest ==
    [endpoint |-> "none", source_type |-> "local", bucket_name |-> None,
     max_files |-> None, dark_mode |-> FALSE]
NoCandidates ==
    [raised |-> FALSE, exc |-> HTTPException(0, ""), listed |-> FALSE,
     found |-> <<>>, json_files |-> <<>>]
NoCalls == [store |-> 0, load |-> 0, merge |-> 0, agent |-> 0]

RequestFresh ==
    /\ request = NoRequest
    /\ listing = [error |-> FALSE, seen |-> 0]
    /\ candidates = NoCandidates
    /\ loaded_files = <<>>
    /\ merged_data = [merged_data |-> <<>>, metadata |-> <<>>]
    /\ result = <<>>
    /\ plotting_ok = TRUE
    /\ response = error_response(0, "")
    /\ calls = NoCalls

RequestIdle ==
    /\ store = <<>>
    /\ RequestFresh
    /\ pc = "off"

PoolIdle ==
    /\ pool_source = "local"
    /\ handles = <<>>
    /\ work = <<>>
    /\ slots = <<>>
    /\ finish_order = <<>>
    /\ pool_loaded = <<>>
    /\ pool_merged = [merged_data |-> <<>>, metadata |-> <<>>]
    /\ ppc = "idle"

(***************************************************************************)
(* The file loader on its own                                              *)
(***************************************************************************)
LoaderInit ==
    /\ shape \in Shapes
    /\ file \in [readable : BOOLEAN, content : {ContentOf(shape)}]
    /\ loaded = JNone
    /\ lpc = "ready"
    /\ MergeIdle /\ SanitizeIdle /\ RequestIdle /\ PoolIdle

LoadLocal ==
    /\ lpc = "ready"
    /\ loaded' = load_json_file_local(file)
    /\ lpc' = "local"
    /\ UNCHANGED <<file, shape, merge_vars, sanitize_vars, request_vars, pool_vars>>

LoadS3 ==
    /\ lpc = "ready"
    /\ loaded' = load_json_file_s3(file)
    /\ lpc' = "s3"
    /\ UNCHANGED <<file, shape, merge_vars, sanitize_vars, request_vars, pool_vars>>

LoaderNext == LoadLocal \/ LoadS3

SpecLoader == LoaderInit /\ [][LoaderNext]_vars

(***************************************************************************)
(* The merger on its own                                                   *)
(***************************************************************************)
MergeInit ==
    /\ documents = <<>>
    /\ merged = [merged_data |-> <<>>, metadata |-> <<>>]
    /\ mpc = "build"
    /\ LoaderIdle /\ SanitizeIdle /\ RequestIdle /\ PoolIdle

\* the caller appends one loaded document: an object, a scalar or an empty array
AppendDocument ==
    /\ mpc = "build"
    /\ input_size(documents) < MaxCandidates
    /\ \E d \in Elements \cup {JList(<<>>)} : documents' = Append(documents, d)
    /\ UNCHANGED <<merged, mpc, loader_vars, sanitize_vars, request_vars, pool_vars>>

\* the last loaded document is an array with one more element
ExtendArray ==
    /\ mpc = "build"
    /\ input_size(documents) < MaxCandidates
    /\ Len(documents) > 0
    /\ documents[Len(documents)].t = "list"
    /\ \E e \in Elements \cup {JList(<<>>)} :
          documents' = [documents EXCEPT ![Len(documents)] = JList(Append(@.m, e))]
    /\ UNCHANGED <<merged, mpc, loader_vars, sanitize_vars, request_vars, pool_vars>>

Merge ==
    /\ mpc = "build"
    /\ merged' = merge_json_data(documents)
    /\ mpc' = "merged"
    /\ UNCHANGED <<documents, loader_vars, sanitize_vars, request_vars, pool_vars>>

MergeNext == AppendDocument \/ ExtendArray \/ Merge

SpecMerge == MergeInit /\ [][MergeNext]_vars

(***************************************************************************)
(* The sanitizer on its own                                                *)
(***************************************************************************)
SanitizeInit ==
    /\ agent_output \in Transcripts
    /\ clean_report = <<>>
    /\ clean_again = <<>>
    /\ spc = "ready"
    /\ LoaderIdle /\ MergeIdle /\ RequestIdle /\ PoolIdle

Sanitize ==
    /\ spc = "ready"
    /\ clean_report' = sanitize(agent_output)
    /\ spc' = "once"
    /\ UNCHANGED <<agent_output, clean_again, loader_vars, merge_vars, request_vars, pool_vars>>

\* the report is handed to the sanitizer as a transcript
SanitizeAgain ==
    /\ spc = "once"
    /\ clean_again' = sanitize(clean_report)
    /\ spc' = "twice"
    /\ UNCHANGED <<agent_output, clean_report, loader_vars, merge_vars, request_vars, pool_vars>>

SanitizeNext == Sanitize \/ SanitizeAgain

SpecSanitize == SanitizeInit /\ [][SanitizeNext]_vars

(***************************************************************************)
(* One request                                                             *)
(***************************************************************************)
Init ==
    /\ store \in Stores
    /\ RequestFresh
    /\ pc = "idle"
    /\ LoaderIdle /\ MergeIdle /\ SanitizeIdle /\ PoolIdle

others == <<loader_vars, merge_vars, sanitize_vars, pool_vars>>

\* GET /list_files
ListFiles ==
    /\ pc = "idle"
    /\ \E req \in ListRequests, io \in ListingOutcomes(store) :
          /\ request' = req
          /\ listing' = io
          /\ response' = list_json_files(req, store, io)
          /\ calls' = [calls EXCEPT !.store =
                          IF req.source_type = "s3" /\ ~falsy_str(req.bucket_name)
                          THEN @ + 1 ELSE @]
    /\ pc' = "done"
    /\ UNCHANGED <<store, candidates, loaded_files, merged_data, result, plotting_ok, others>>

\* POST /analyze, lines 224-231 and 242-252 (and 615-616 when they raise)
AnalyzeList ==
    /\ pc = "idle"
    /\ \E req \in AnalyzeRequests, io \in ListingOutcomes(store) :
          LET c == analyze_candidates(req, store, io) IN
          /\ request' = req
          /\ listing' = io
          /\ candidates' = c
          /\ calls' = [calls EXCEPT !.store =
                          IF req.source_type = "s3" /\ c.listed THEN @ + 1 ELSE @]
          /\ IF c.raised
             THEN response' = request_boundary(c.exc) /\ pc' = "done"
             ELSE UNCHANGED response /\ pc' = "listed"
    /\ UNCHANGED <<store, loaded_files, merged_data, result, plotting_ok, others>>

\* lines 233-240 and 254-259
AnalyzeLoad ==
    /\ pc = "listed"
    /\ loaded_files' = load_all(request, store, candidates.json_files)
    /\ calls' = [calls EXCEPT
                    !.load = @ + Len(candidates.json_files),
                    !.store = IF request.source_type = "s3"
                              THEN @ + Len(candidates.json_files) ELSE @]
    /\ pc' = "loaded"
    /\ UNCHANGED <<store, request, listing, candidates, merged_data, result,
                   plotting_ok, response, others>>

\* lines 264-271 (and 615-616 when line 268 raises)
AnalyzeMerge ==
    /\ pc = "loaded"
    /\ loaded_files' = SelectSeq(loaded_files, not_none)
    /\ IF Len(loaded_files') = 0
       THEN /\ response' = request_boundary(
                               HTTPException(500, "Failed to load any JSON files"))
            /\ pc' = "done"
            /\ UNCHANGED <<merged_data, calls>>
       ELSE /\ merged_data' = merge_json_data(loaded_files')
            /\ calls' = [calls EXCEPT !.merge = @ + 1]
            /\ pc' = "merged"
            /\ UNCHANGED response
    /\ UNCHANGED <<store, request, listing, candidates, result, plotting_ok, others>>

\* lines 277-374: the agent returns a transcript, or raises (615-616)
AnalyzeInvoke ==
    /\ pc = "merged"
    /\ calls' = [calls EXCEPT !.agent = @ + 1]
    /\ \/ /\ \E t \in AgentTranscripts : result' = t
          /\ pc' = "invoked"
          /\ UNCHANGED response
       \/ /\ response' = request_boundary(HTTPException(0, "agent error"))
          /\ pc' = "done"
          /\ UNCHANGED result
    /\ UNCHANGED <<store, request, listing, candidates, loaded_files, merged_data,
                   plotting_ok, others>>

\* lines 376-616
AnalyzeRespond ==
    /\ pc = "invoked"
    /\ plotting_ok' \in BOOLEAN
    /\ response' = analyze_response(request, merged_data, Len(loaded_files),
                                    Len(candidates.json_files), result, plotting_ok')
    /\ pc' = "done"
    /\ UNCHANGED <<store, request, listing, candidates, loaded_files, merged_data,
                   result, calls, others>>

Next ==
    \/ ListFiles
    \/ AnalyzeList
    \/ AnalyzeLoad
    \/ AnalyzeMerge
    \/ AnalyzeInvoke
    \/ AnalyzeRespond

Spec == Init /\ [][Next]_vars

(***************************************************************************)
(* Properties                                                              *)
(***************************************************************************)
\* C1: when POST /analyze finds the candidate list empty after the max_files
\* cap, the client receives status 404, and nothing was loaded, merged or
\* sent to the agent.
C1_NoFilesFoundIs404 ==
    (pc = "done" /\ request.endpoint = "analyze" /\ candidates.listed
        /\ Len(candidates.json_files) = 0)
        => /\ response.status = 404
           /\ calls.load = 0 /\ calls.merge = 0 /\ calls.agent = 0

\* the agent returned a transcript and lines 376-616 produced the response
Responded == pc = "done" /\ request.endpoint = "analyze" /\ Len(result) > 0
ChartRaised ==
    build_visualization(merged_data.merged_data, request.dark_mode, plotting_ok).raised

\* C2: when building the chart raises after the agent returned, the client
\* still receives a success: status 200, the sanitized transcript as message,
\* no visualization, success true and the failure text in visualization_error.
C2_ChartFailureIsNonFatal ==
    (Responded /\ ChartRaised)
        => /\ response.status = 200
           /\ response.message = sanitize(result)
           /\ ~response.visualization.present
           /\ response.success
           /\ response.visualization_error # None

\* C3: when at least one file loaded but the merge kept no record, the
\* request fails with status 500 and the agent is never invoked.
C3_NoValidRecordsStopsRequest ==
    (calls.merge = 1 /\ Len(loaded_files) > 0 /\ Len(merged_data.merged_data) = 0)
        => /\ calls.agent = 0
           /\ pc = "done" => response.status = 500

\* C4: with source_type "s3" and bucket_name missing or empty, either
\* endpoint answers 400 and never queries the object store.
C4_MissingBucketIs400 ==
    (pc = "done" /\ request.source_type = "s3" /\ falsy_str(request.bucket_name))
        => response.status = 400 /\ calls.store = 0

\* C5: in object-store mode a failed listing ends POST /analyze with status
\* 500: no empty or partial list is returned, nothing is loaded or analyzed.
C5_ListingErrorPropagates ==
    (request.endpoint = "analyze" /\ request.source_type = "s3"
        /\ ~falsy_str(request.bucket_name) /\ listing.error)
        => pc = "done" /\ response.status = 500 /\ calls.load = 0

\* C6: a readable local file of N >= 1 objects written one after another
\* with the boundary "}\n{" loads as the array of those objects, each parsed
\* on its own (and not as None).
C6_ConcatenatedObjectsLoad ==
    (lpc = "local" /\ file.readable /\ shape.kind = "concat" /\ shape.sep = <<"\n">>)
        => loaded = JList([i \in 1..Len(shape.objs) |-> json_loads(shape.objs[i]).v])

\* what the claims call a candidate, a rejected candidate and the corpus
Candidates == all_reports(documents)
HasRequiredKeys(c) ==
    /\ c.t = "dict"
    /\ \E i \in 1..Len(c.m) : c.m[i].k = "id"
    /\ \E i \in 1..Len(c.m) : c.m[i].k = "state"
    /\ \E i \in 1..Len(c.m) : c.m[i].k = "test_case_id"
SomeCandidateRejected == \E i \in 1..Len(Candidates) : ~HasRequiredKeys(Candidates[i])

\* C7: the metadata's report total is the number of candidates seen, so it
\* is strictly greater than the number of records kept whenever a candidate
\* was rejected.
C7_TotalCountsCandidates ==
    (mpc = "merged" /\ Len(merged.metadata) = 1)
        => /\ merged.metadata[1].total_reports = Len(Candidates)
           /\ SomeCandidateRejected
                => merged.metadata[1].total_reports > Len(merged.merged_data)

\* C8: the merged records are exactly the candidates that have id, state and
\* test_case_id, in input order, and the count of valid records that the
\* metadata reports is the number of merged records.
C8_OnlyValidRecordsInOrder ==
    mpc = "merged"
        => /\ merged.merged_data = SelectSeq(Candidates, HasRequiredKeys)
           /\ \A i \in 1..Len(merged.metadata) :
                 merged.metadata[i].total_reports = Len(merged.merged_data)

\* C8 witness: a merge that kept a record and reported its count, and
\* rejected both a dict without test_case_id and an element that is no object.
C8_Witness ==
    /\ mpc = "merged"
    /\ Len(merged.merged_data) >= 1
    /\ Len(merged.metadata) = 1
    /\ \E i \in 1..Len(Candidates) : Candidates[i] = NoTestCaseId
    /\ \E i \in 1..Len(Candidates) : Candidates[i].t # "dict"

\* C9: a successful POST /analyze reports as total_files_found the number of
\* files the listing found, before the cut to max_files.
C9_TotalFilesFoundIsPreCap ==
    (pc = "done" /\ request.endpoint = "analyze" /\ response.status = 200)
        => response.total_files_found = Len(candidates.found)

\* C10: sanitizing a sanitized report gives the same report.
C10_SanitizeIdempotent ==
    spc = "twice" => clean_again = clean_report

\* C10 witness: a transcript with a marker whose report has several lines and
\* was sanitized a second time.
C10_Witness ==
    /\ spc = "twice"
    /\ contains(agent_output, {FinalAnswerMarker})
    /\ contains(clean_report, {"\n"})
    /\ clean_report # agent_output

\* the lines of a report
ReportLines == split(clean_report, <<"\n">>)
IsReport == spc \in {"once", "twice"} /\ clean_report # <<NoResultsLiteral>>

\* C11: a report that is not the fallback literal has no line with "{" or
\* "}", no two consecutive identical lines (blank lines included), and
\* neither its first nor its last line is blank.
C11_ReportIsClean ==
    IsReport
        => /\ \A i \in 1..Len(ReportLines) :
                 \A j \in 1..Len(ReportLines[i]) : ReportLines[i][j] \notin {"{", "}"}
           /\ \A i \in 1..(Len(ReportLines) - 1) : ReportLines[i] # ReportLines[i + 1]
           /\ ReportLines[1] # <<>>
           /\ ReportLines[Len(ReportLines)] # <<>>

\* C11 witness: a report made from a transcript that had a line with a brace
\* and from which the clean-up removed a line.
C11_Witness ==
    /\ IsReport
    /\ contains(agent_output, {"{", "}"})
    /\ Len(collect_lines(split(after_marker(agent_output), <<"\n">>))) > Len(ReportLines)

\* the text after the first occurrence of the marker
Remainder(output) ==
    LET first == Min({k \in 1..Len(output) : output[k] = FinalAnswerMarker})
    IN  SubSeq(output, first + 1, Len(output))

\* every line of a text put through the line filters and the clean-up
ProcessedWhole(text) ==
    LET kept == pop_blank_lines(skip_duplicates(collect_lines(split(text, <<"\n">>)), <<>>))
    IN  IF Len(kept) > 0 THEN join(<<"\n">>, kept) ELSE <<NoResultsLiteral>>

\* C12: with a marker the report is made from everything after its first
\* occurrence, text after later occurrences included; without a marker it is
\* made from every line of the transcript.
C12_WholeRemainderProcessed ==
    spc \in {"once", "twice"}
        => clean_report =
              ProcessedWhole(IF contains(agent_output, {FinalAnswerMarker})
                             THEN Remainder(agent_output) ELSE agent_output)

\* the lines the filters of lines 517-563 are applied to, trimmed
ProcessedLines ==
    LET raw == split(after_marker(agent_output), <<"\n">>)
    IN  [i \in 1..Len(raw) |-> strip(raw[i])]

\* a line that reaches the test of lines 549-559
ReachesResultTest(line) ==
    /\ Len(line) > 0
    /\ line[1] \notin DialoguePrefixes
    /\ \A j \in 1..Len(line) : line[j] \notin {"{", "}"}
    /\ line[1] \notin PlanningPrefixes
    /\ ~(TokenEndsWithColon(line[Len(line)]) /\ line[1] # "-")

DigitDot == {"0.", "1.", "2.", "3.", "4.", "5.", "6.", "7.", "8.", "9."}

\* what step 7 says a result looks like
StatedResult(line) ==
    \/ line[1] \in {"-", "\\u2022", "*"}
    \/ line[1] \in DigitDot
    \/ \E j \in 1..Len(line) : TokenHasColon(line[j]) \/ line[j] = "%"
    \/ \E j \in 1..Len(line) : TokenLower(line[j]) \in ResultWords

\* C14: a line that reaches step 7 is in the report if and only if it starts
\* with "-", a bullet, "*" or a digit 0-9 and ".", or contains ":" or "%",
\* or contains one of the result words in any letter case.
C14_ResultLinesKept ==
    spc \in {"once", "twice"}
        => \A i \in 1..Len(ProcessedLines) :
              ReachesResultTest(ProcessedLines[i])
                 => ((\E k \in 1..Len(ReportLines) : ReportLines[k] = ProcessedLines[i])
                        <=> StatedResult(ProcessedLines[i]))

(***************************************************************************)
(* Thread pool (analyze_data, lines 236-240 and 255-259)                   *)
(***************************************************************************)
\* the 10 of max_workers=min(10, len(json_files))
PoolCap == 10

max_workers(json_files) ==
    IF Len(json_files) < PoolCap THEN Len(json_files) ELSE PoolCap

\* results stored in the order the calls finish
completion_slot(slots_, i) ==
    Min({k \in 1..Len(slots_) : slots_[k] = None})

\* executor.map: the future of the i-th submitted call holds that call's result
result_slot(slots_, i) == i

\* the lambda handed to executor.map, applied to one file
load_one(source_type, f) ==
    IF source_type = "local" THEN load_json_file_local(f) ELSE load_json_file_s3(f)

\* a file that loads, one that cannot be read, one with other keys, and an
\* array of two reports
PoolFiles ==
    { [readable |-> TRUE, content |-> GoodObject],
      [readable |-> FALSE, content |-> GoodObject],
      [readable |-> TRUE, content |-> BadDates],
      [readable |-> TRUE,
       content |-> <<"[">> \o GoodObject \o <<",", "{", "id", "}", "]">>] }

Running == {i \in 1..Len(work) : work[i] = "running"}
Pending == {i \in 1..Len(work) : work[i] = "pending"}

PoolInit ==
    /\ pool_source \in {"local", "s3"}
    /\ handles \in SeqsUpTo(PoolFiles, MaxHandles)
    /\ work = <<>>
    /\ slots = <<>>
    /\ finish_order = <<>>
    /\ pool_loaded = <<>>
    /\ pool_merged = [merged_data |-> <<>>, metadata |-> <<>>]
    /\ ppc = "start"
    /\ LoaderIdle /\ MergeIdle /\ SanitizeIdle /\ RequestIdle

\* executor.map submits one call per file, in the order of json_files
PoolSubmit ==
    /\ ppc = "start"
    /\ work' = [i \in 1..Len(handles) |-> "pending"]
    /\ slots' = [i \in 1..Len(handles) |-> None]
    /\ ppc' = "mapping"
    /\ UNCHANGED <<pool_source, handles, finish_order, pool_loaded, pool_merged,
                   loader_vars, merge_vars, sanitize_vars, request_vars>>

\* a worker thread takes the oldest call of the queue; at most max_workers
\* threads exist
WorkerTake ==
    /\ ppc = "mapping"
    /\ Pending # {}
    /\ Cardinality(Running) < max_workers(handles)
    /\ work' = [work EXCEPT ![Min(Pending)] = "running"]
    /\ UNCHANGED <<pool_source, handles, slots, finish_order, pool_loaded, pool_merged,
                   ppc, loader_vars, merge_vars, sanitize_vars, request_vars>>

\* any running call returns; its result is set on its future
WorkerFinish ==
    /\ ppc = "mapping"
    /\ \E i \in Running :
          /\ work' = [work EXCEPT ![i] = "finished"]
          /\ slots' = [slots EXCEPT ![result_slot(slots, i)] =
                                         Some(load_one(pool_source, handles[i]))]
          /\ finish_order' = Append(finish_order, i)
    /\ UNCHANGED <<pool_source, handles, pool_loaded, pool_merged, ppc,
                   loader_vars, merge_vars, sanitize_vars, request_vars>>

\* list(...) takes the next result of the iterator, which waits for the
\* futures in the order they were submitted
PoolYield ==
    /\ ppc = "mapping"
    /\ Len(pool_loaded) < Len(slots)
    /\ slots[Len(pool_loaded) + 1] # None
    /\ pool_loaded' = Append(pool_loaded, slots[Len(pool_loaded) + 1][1])
    /\ UNCHANGED <<pool_source, handles, work, slots, finish_order, pool_merged, ppc,
                   loader_vars, merge_vars, sanitize_vars, request_vars>>

\* lines 264-271, once the list is complete
PoolMerge ==
    /\ ppc = "mapping"
    /\ Len(pool_loaded) = Len(handles)
    /\ LET kept == SelectSeq(pool_loaded, not_none)
       IN  IF Len(kept) = 0
           THEN ppc' = "failed" /\ UNCHANGED pool_merged
           ELSE ppc' = "merged" /\ pool_merged' = merge_json_data(kept)
    /\ UNCHANGED <<pool_source, handles, work, slots, finish_order, pool_loaded,
                   loader_vars, merge_vars, sanitize_vars, request_vars>>

PoolNext == PoolSubmit \/ WorkerTake \/ WorkerFinish \/ PoolYield \/ PoolMerge

SpecPool == PoolInit /\ [][PoolNext]_vars

\* loading the files one after the other
SequentialLoad == [i \in 1..Len(handles) |-> load_one(pool_source, handles[i])]

\* C13: whatever the order in which the workers run and finish, the slot of
\* handle i holds the outcome of loading handle i, the list of loaded
\* documents is the one sequential loading gives, and so is the merged corpus.
C13_PoolKeepsOrder ==
    /\ \A i \in 1..Len(slots) : slots[i] # None => slots[i][1] = SequentialLoad[i]
    /\ pool_loaded = SubSeq(SequentialLoad, 1, Len(pool_loaded))
    /\ ppc \in {"merged", "failed"} => pool_loaded = SequentialLoad
    /\ ppc = "merged"
          => pool_merged = merge_json_data(SelectSeq(SequentialLoad, not_none))

\* the workers finished out of order, on files whose outcomes differ
C13_Witness ==
    /\ ppc = "merged"
    /\ \E a, b \in 1..Len(finish_order) : a < b /\ finish_order[a] > finish_order[b]
    /\ \E i, j \in 1..Len(handles) : SequentialLoad[i] # SequentialLoad[j]
    /\ \E i \in 1..Len(pool_loaded) : ~not_none(pool_loaded[i])
    /\ Len(pool_merged.merged_data) >= 2

====
